---- MODULE Spec2Model ----
(***************************************************************************)
(* The scan pipeline of PhishGuard AI (src/api/genai_app.py): URL feature  *)
(* extraction, the heuristic scorer ml_score_calc, the classifier adapter  *)
(* genai_analysis (one outbound call, direct JSON parse, brace-span        *)
(* recovery, fallback) and the weighted fusion of scan().                  *)
(*                                                                         *)
(* Python values are records of one shape, [t, n, s, l, o]: t is the type  *)
(* tag, n the number of an int/float, s the text of a str, l the items of  *)
(* a list and o the mapping of a dict.  Floats that scan() computes are    *)
(* kept in hundredths (x100), which is exact for the integer scores the    *)
(* model draws (0.45*ml + 0.55*g has at most two decimals there).          *)
(***************************************************************************)
EXTENDS Integers, Sequences, FiniteSets, TLC

VARIABLES groq_client, req, groq, pc, features, ml, content, genai, calls, response

vars == <<groq_client, req, groq, pc, features, ml, content, genai, calls, response>>

\* Requests in flight: the endpoint is a plain def, served by a thread pool.
Scans == {1, 2}

(***************************** Python values *******************************)

EmptyDict == [k \in {} |-> 0]

PyVal(t, n, s, l, o) == [t |-> t, n |-> n, s |-> s, l |-> l, o |-> o]

Num(n) == PyVal("num", n, "", <<>>, EmptyDict)

\* json.loads accepts the literal NaN and yields float('nan').
NaN == PyVal("nan", 0, "", <<>>, EmptyDict)

Str(s) == PyVal("str", 0, s, <<>>, EmptyDict)

Null == PyVal("null", 0, "", <<>>, EmptyDict)

List(l) == PyVal("list", 0, "", l, EmptyDict)

Obj(o) == PyVal("obj", 0, "", <<>>, o)

\* A key the classifier left out of its object.
Absent == PyVal("absent", 0, "", <<>>, EmptyDict)

\* dict.get(key, default)
DictGet(d, key, default) == IF key \in DOMAIN d.o THEN d.o[key] ELSE default

Min2(a, b) == IF a < b THEN a ELSE b

(************************** URL feature extraction *************************)

SUSPICIOUS_TLDS == {"xyz", "zip", "click", "top", "tk", "ml", "ga", "cf"}

LONG_URL == 70

MANY_HYPHENS == 3

\* A URL is kept as what get_url_features reads off it: the length of its
\* text, whether the text starts with "https", and tldextract's answer (the
\* host's shape and the public suffix).
Urls ==
    [ length : {LONG_URL, LONG_URL + 1},
      starts_https : BOOLEAN,
      host_dotted_quad : BOOLEAN,
      host_hyphens : {0, MANY_HYPHENS - 1, MANY_HYPHENS},
      suffix : {"com", "xyz"} ]

\* re.fullmatch(r"\d{1,3}(\.\d{1,3}){3}", host)
is_ip(url) == url.host_dotted_quad

get_url_features(url) ==
    [ url_length |-> url.length,
      num_dots |-> IF url.host_dotted_quad THEN 3 ELSE 1,
      num_hyphens |-> url.host_hyphens,
      has_https |-> url.starts_https,
      looks_like_ip |-> is_ip(url),
      suspicious_tld |-> url.suffix \in SUSPICIOUS_TLDS ]

(***************************** Heuristic scorer ****************************)

DELTA_IP == 20

DELTA_TLD == 15

DELTA_LENGTH == 10

DELTA_HYPHENS == 10

DELTA_HTTPS == 10

SCORE_CAP == 100

\* One rule of ml_score_calc: score += delta, reasons.append(reason).
ApplyRule(acc, triggered, delta, reason) ==
    IF triggered
    THEN [score |-> acc.score + delta, reasons |-> Append(acc.reasons, Str(reason))]
    ELSE acc

\* The long-URL rule with an inclusive bound.
LengthRuleInclusive(f) == f.url_length >= LONG_URL

LengthRule(f) == f.url_length > LONG_URL

HyphenRule(f) == f.num_hyphens >= MANY_HYPHENS

ml_score_calc(f) ==
    LET r0 == [score |-> 0, reasons |-> <<>>]
        r1 == ApplyRule(r0, f.looks_like_ip, DELTA_IP, "IP address used instead of domain")
        r2 == ApplyRule(r1, f.suspicious_tld, DELTA_TLD, "Suspicious TLD detected")
        r3 == ApplyRule(r2, LengthRule(f), DELTA_LENGTH, "Unusually long URL")
        r4 == ApplyRule(r3, HyphenRule(f), DELTA_HYPHENS, "Too many hyphens in domain")
        r5 == ApplyRule(r4, ~f.has_https, DELTA_HTTPS, "HTTPS not used")
    IN  [score |-> Min2(r5.score, SCORE_CAP), reasons |-> r5.reasons]

(************************ The classifier's response ************************)

\* The response text as a sequence of lexical pieces: "{" and "}" are the
\* braces, "x" is a run of prose, "n" a number literal, "K" the text
\* "k": opening a member whose value follows, and "M" the member list that
\* spells out `body` (keys and values hold no brace).
Tokens == {"{", "}", "x", "n", "M", "K"}

Keys == {"genai_score", "verdict", "top_reasons", "notes"}

MkBody(score, verdict, top_reasons, notes) ==
    LET all == [genai_score |-> score, verdict |-> verdict,
                top_reasons |-> top_reasons, notes |-> notes]
    IN  [k \in {q \in Keys : all[q].t # "absent"} |-> all[k]]

RECURSIVE ParseValue(_, _, _)
\* One JSON value of `toks` starting at position i: [ok, val, next].
ParseValue(toks, i, body) ==
    LET fail == [ok |-> FALSE, val |-> Null, next |-> i]
        n == Len(toks)
    IN  IF i > n THEN fail
        ELSE IF toks[i] = "n" THEN [ok |-> TRUE, val |-> Num(7), next |-> i + 1]
        ELSE IF toks[i] # "{" \/ i + 1 > n THEN fail
        ELSE IF toks[i + 1] = "}" THEN [ok |-> TRUE, val |-> Obj(EmptyDict), next |-> i + 2]
        ELSE IF toks[i + 1] = "M"
             THEN IF i + 2 <= n /\ toks[i + 2] = "}"
                  THEN [ok |-> TRUE, val |-> Obj(body), next |-> i + 3]
                  ELSE fail
        ELSE IF toks[i + 1] = "K"
             THEN LET r == ParseValue(toks, i + 2, body)
                  IN  IF r.ok /\ r.next <= n /\ toks[r.next] = "}"
                      THEN [ok |-> TRUE, val |-> Obj([k \in {"k"} |-> r.val]),
                            next |-> r.next + 1]
                      ELSE fail
        ELSE fail

\* json.loads(text): the whole text must be one JSON value.
json_loads(toks, body) ==
    LET r == ParseValue(toks, 1, body)
    IN  IF r.ok /\ r.next = Len(toks) + 1
        THEN [ok |-> TRUE, val |-> r.val]
        ELSE [ok |-> FALSE, val |-> Null]

\* The matches of r"\{.*\}" with DOTALL: a "{", anything, a "}".
BraceMatches(toks) ==
    {p \in (1..Len(toks)) \X (1..Len(toks)) :
        p[1] < p[2] /\ toks[p[1]] = "{" /\ toks[p[2]] = "}"}

\* A search that stops at the first closing brace (a non-greedy .*?).
re_search_lazy(toks) ==
    LET ms == BraceMatches(toks)
    IN  IF ms = {} THEN [found |-> FALSE, group |-> <<>>]
        ELSE LET i == CHOOSE a \in {p[1] : p \in ms} : \A b \in {p[1] : p \in ms} : a <= b
                 ends == {p[2] : p \in {q \in ms : q[1] = i}}
                 j == CHOOSE a \in ends : \A b \in ends : a <= b
             IN  [found |-> TRUE, group |-> SubSeq(toks, i, j)]

\* re.search: the leftmost match, and of those the longest (.* is greedy).
re_search(toks) ==
    LET ms == BraceMatches(toks)
    IN  IF ms = {} THEN [found |-> FALSE, group |-> <<>>]
        ELSE LET i == CHOOSE a \in {p[1] : p \in ms} : \A b \in {p[1] : p \in ms} : a <= b
                 ends == {p[2] : p \in {q \in ms : q[1] = i}}
                 j == CHOOSE a \in ends : \A b \in ends : a >= b
             IN  [found |-> TRUE, group |-> SubSeq(toks, i, j)]

(*************************** genai_analysis ********************************)

FALLBACK_SCORE == 50

\* Returned when groq_client is None.
unavailable_fallback ==
    Obj(MkBody(Num(FALLBACK_SCORE), Str("SUSPICIOUS"),
               List(<<Str("GenAI not configured (missing GROQ_API_KEY or Groq SDK).")>>),
               Str("Fallback used (GenAI unavailable)")))

\* An error fallback that reuses the notes of the unconfigured case.
error_fallback_wrong_notes ==
    Obj(MkBody(Num(FALLBACK_SCORE), Str("SUSPICIOUS"),
               List(<<Str("GenAI fallback: <error text>")>>),
               Str("Fallback used (GenAI unavailable)")))

\* Returned by the outer except; the reason is f"GenAI fallback: {str(e)}".
error_fallback ==
    Obj(MkBody(Num(FALLBACK_SCORE), Str("SUSPICIOUS"),
               List(<<Str("GenAI fallback: <error text>")>>),
               Str("Fallback used (GenAI error)")))

NoContent == [none |-> FALSE, toks |-> <<>>, body |-> EmptyDict]

(********************************* scan ************************************)

DEFAULT_GENAI_SCORE == 50

WEIGHT_ML == 45

WEIGHT_GENAI == 55

PHISHING_MIN == 75

SUSPICIOUS_MIN == 45

MAX_REASONS == 6

\* Python floats of scan(): NaN, or a number kept in hundredths.
FloatNaN == [nan |-> TRUE, x100 |-> 0]

FloatOf(n) == [nan |-> FALSE, x100 |-> 100 * n]

\* str -> float for the numeric texts the model draws.
NumericText == [s \in {"80"} |-> 80]

\* float(v): [ok, val]; ValueError on a non-numeric str, TypeError on
\* None, a list or a dict.
py_float(v) ==
    IF v.t = "num" THEN [ok |-> TRUE, val |-> FloatOf(v.n)]
    ELSE IF v.t = "nan" THEN [ok |-> TRUE, val |-> FloatNaN]
    ELSE IF v.t = "str" /\ v.s \in DOMAIN NumericText
         THEN [ok |-> TRUE, val |-> FloatOf(NumericText[v.s])]
    ELSE [ok |-> FALSE, val |-> FloatNaN]

\* 0.45 * ml_score + 0.55 * genai_score; NaN propagates.
final_score(ml_score, g) ==
    IF g.nan THEN FloatNaN
    ELSE [nan |-> FALSE, x100 |-> (WEIGHT_ML * 100 * ml_score + WEIGHT_GENAI * g.x100) \div 100]

\* final_score >= bound; every comparison with NaN is False.
FloatGE(f, bound) == ~f.nan /\ f.x100 >= 100 * bound

verdict_of(final) ==
    IF FloatGE(final, PHISHING_MIN) THEN "PHISHING"
    ELSE IF FloatGE(final, SUSPICIOUS_MIN) THEN "SUSPICIOUS"
    ELSE "SAFE"

\* round(final_score, 2): the value is already in hundredths.
round2(f) == f

Truncate(l) == SubSeq(l, 1, Min2(Len(l), MAX_REASONS))

\* Classifier reasons ahead of the heuristic ones.
merge_reasons_classifier_first(ml_reasons, top) == Truncate(top \o ml_reasons)

\* (ml_reasons + top_reasons)[:6]
merge_reasons(ml_reasons, top) == Truncate(ml_reasons \o top)

NoFeatures ==
    [ url_length |-> 0, num_dots |-> 0, num_hyphens |-> 0, has_https |-> FALSE,
      looks_like_ip |-> FALSE, suspicious_tld |-> FALSE ]

NoResponse ==
    [ verdict |-> "NONE", risk_score |-> FloatNaN, ml_score |-> 0,
      genai_score |-> FloatNaN, reasons |-> <<>>, signals |-> NoFeatures,
      genai_summary |-> Null ]

\* A response whose verdict is the classifier's own, when it gave one.
make_response_trusting_hint(mlr, g, score, reasons, f) ==
    [ verdict |-> IF DictGet(g, "verdict", Null).t = "str"
                  THEN DictGet(g, "verdict", Null).s
                  ELSE verdict_of(final_score(mlr.score, score)),
      risk_score |-> round2(final_score(mlr.score, score)),
      ml_score |-> mlr.score,
      genai_score |-> score,
      reasons |-> reasons,
      signals |-> f,
      genai_summary |-> g ]

\* ScanResponse(...)
make_response(mlr, g, score, reasons, f) ==
    [ verdict |-> verdict_of(final_score(mlr.score, score)),
      risk_score |-> round2(final_score(mlr.score, score)),
      ml_score |-> mlr.score,
      genai_score |-> score,
      reasons |-> reasons,
      signals |-> f,
      genai_summary |-> g ]

\* The body of scan() after genai_analysis returned g: [raised, response].
\* It raises when g has no .get (not a dict), when float() rejects the
\* score, when top_reasons cannot be added to a list, and when a kept
\* reason is not a str (ScanResponse.reasons is list[str]).
scan_fuse(mlr, g, f) ==
    LET raised == [raised |-> TRUE, response |-> NoResponse]
    IN  IF g.t # "obj" THEN raised
        ELSE LET fl == py_float(DictGet(g, "genai_score", Num(DEFAULT_GENAI_SCORE)))
                 top == DictGet(g, "top_reasons", List(<<>>))
             IN  IF ~fl.ok \/ top.t # "list" THEN raised
                 ELSE LET reasons == merge_reasons(mlr.reasons, top.l)
                      IN  IF \E i \in 1..Len(reasons) : reasons[i].t # "str"
                          THEN raised
                          ELSE [raised |-> FALSE,
                                response |-> make_response(mlr, g, fl.val, reasons, f)]

(******************************** Actions **********************************)

\* scan(): get_url_features and ml_score_calc, up to the call of genai_analysis.
ScanBegin(s) ==
    /\ pc[s] = "scan"
    /\ features' = [features EXCEPT ![s] = get_url_features(req[s])]
    /\ ml' = [ml EXCEPT ![s] = ml_score_calc(get_url_features(req[s]))]
    /\ pc' = [pc EXCEPT ![s] = "genai_analysis"]
    /\ UNCHANGED <<groq_client, req, groq, content, genai, calls, response>>

\* genai_analysis with groq_client None: the fixed fallback, no call.
GenaiUnconfigured(s) ==
    /\ pc[s] = "genai_analysis"
    /\ ~groq_client
    /\ genai' = [genai EXCEPT ![s] = unavailable_fallback]
    /\ pc' = [pc EXCEPT ![s] = "fuse"]
    /\ UNCHANGED <<groq_client, req, groq, features, ml, content, calls, response>>

\* groq_client.chat.completions.create(...): it raises, or res carries a
\* message whose content is a text or None.
GenaiCall(s) ==
    /\ pc[s] = "genai_analysis"
    /\ groq_client
    /\ calls' = [calls EXCEPT ![s] = @ + 1]
    /\ IF groq[s].kind = "raise"
       THEN /\ pc' = [pc EXCEPT ![s] = "except"]
            /\ UNCHANGED content
       ELSE /\ content' = [content EXCEPT ![s] =
                              [none |-> groq[s].kind = "none",
                               toks |-> groq[s].toks, body |-> groq[s].body]]
            /\ pc' = [pc EXCEPT ![s] = "loads"]
    /\ UNCHANGED <<groq_client, req, groq, features, ml, genai, response>>

\* return json.loads(content); json.loads(None) raises TypeError.
GenaiLoads(s) ==
    /\ pc[s] = "loads"
    /\ LET r == json_loads(content[s].toks, content[s].body)
       IN  IF ~content[s].none /\ r.ok
           THEN /\ genai' = [genai EXCEPT ![s] = r.val]
                /\ pc' = [pc EXCEPT ![s] = "fuse"]
           ELSE /\ pc' = [pc EXCEPT ![s] = "recover"]
                /\ UNCHANGED genai
    /\ UNCHANGED <<groq_client, req, groq, features, ml, content, calls, response>>

\* The inner except: re.search, json.loads(m.group(0)), or raise again;
\* re.search on None raises TypeError.
GenaiRecover(s) ==
    /\ pc[s] = "recover"
    /\ LET m == re_search(content[s].toks)
           r == json_loads(m.group, content[s].body)
       IN  IF ~content[s].none /\ m.found /\ r.ok
           THEN /\ genai' = [genai EXCEPT ![s] = r.val]
                /\ pc' = [pc EXCEPT ![s] = "fuse"]
           ELSE /\ pc' = [pc EXCEPT ![s] = "except"]
                /\ UNCHANGED genai
    /\ UNCHANGED <<groq_client, req, groq, features, ml, content, calls, response>>

\* An except clause that tries the call again.
GenaiFallbackRetry(s) ==
    /\ pc[s] = "except"
    /\ pc' = [pc EXCEPT ![s] = "genai_analysis"]
    /\ UNCHANGED <<groq_client, req, groq, features, ml, content, genai, calls, response>>

\* The outer except Exception: the error fallback.
GenaiFallback(s) ==
    /\ pc[s] = "except"
    /\ genai' = [genai EXCEPT ![s] = error_fallback]
    /\ pc' = [pc EXCEPT ![s] = "fuse"]
    /\ UNCHANGED <<groq_client, req, groq, features, ml, content, calls, response>>

\* scan() from float(genai.get("genai_score", 50)) to the return.
ScanFuse(s) ==
    /\ pc[s] = "fuse"
    /\ LET out == scan_fuse(ml[s], genai[s], features[s])
       IN  IF out.raised
           THEN /\ pc' = [pc EXCEPT ![s] = "raised"]
                /\ UNCHANGED response
           ELSE /\ response' = [response EXCEPT ![s] = out.response]
                /\ pc' = [pc EXCEPT ![s] = "done"]
    /\ UNCHANGED <<groq_client, req, groq, features, ml, content, genai, calls>>

Next ==
    \E s \in Scans :
        \/ ScanBegin(s)
        \/ GenaiUnconfigured(s)
        \/ GenaiCall(s)
        \/ GenaiLoads(s)
        \/ GenaiRecover(s)
        \/ GenaiFallback(s)
        \/ ScanFuse(s)

(***************************** Inputs and Init *****************************)

\* Longest list of top_reasons the classifier returns.
MaxTop == 7

\* Longest response text drawn exhaustively, in lexical pieces.
MaxLen == 5

ReasonPool == <<"r1", "HTTPS not used", "r1", "r2">>

\* n classifier reasons: repeats, and one the heuristic scorer also gives.
TopReasons(n) == [i \in 1..n |-> Str(ReasonPool[((i - 1) % Len(ReasonPool)) + 1])]

ScoreValues == {-20, 0, 20, 45, 50, 60, 80, 100, 120, 140}

\* Well-formed objects over a range of scores, in and out of [0,100].
ScoreBodies ==
    {MkBody(Num(g), Str("PHISHING"), List(TopReasons(1)), Str("n1")) : g \in ScoreValues}

\* Well-formed objects that differ in the verdict hint and the notes.
HintBodies ==
    {MkBody(Num(g), Str(h), List(TopReasons(1)), Str(n)) :
        g \in {20, 80}, h \in {"SAFE", "SUSPICIOUS", "PHISHING"}, n \in {"n1", "n2"}}

\* Well-formed objects with 0..MaxTop reasons.
ReasonBodies ==
    {MkBody(Num(50), Str("SAFE"), List(TopReasons(n)), Str("n1")) : n \in 0..MaxTop}

\* JSON objects of other shapes: keys missing, a score that is no number,
\* top_reasons that is no list of strings.
OddBodies ==
    {MkBody(g, Absent, t, Absent) :
        g \in {Absent, Num(80), Str("high"), Str("80"), Null, NaN, List(<<>>)},
        t \in {Absent, List(TopReasons(2)), Str("text"), Null,
               List(<<Num(1)>>), List(TopReasons(MAX_REASONS) \o <<Num(1)>>)}}

Bodies == ScoreBodies \cup HintBodies \cup ReasonBodies \cup OddBodies

Body80 == MkBody(Num(80), Str("PHISHING"), List(<<Str("x")>>), Str("n"))

Raise == [kind |-> "raise", toks |-> <<>>, body |-> EmptyDict]

NoneContent == [kind |-> "none", toks |-> <<>>, body |-> EmptyDict]

Text(toks, body) == [kind |-> "text", toks |-> toks, body |-> body]

\* Longer texts: an object in prose, a nested object in prose, two objects.
SampleTexts ==
    { <<"x", "{", "M", "}", "x">>,
      <<"x", "{", "K", "{", "M", "}", "}", "x">>,
      <<"{", "M", "}", "x", "{", "M", "}">>,
      <<"{", "K", "{", "K", "n", "}", "}">> }

TextsUpTo(n) == UNION {[1..k -> Tokens] : k \in 0..n}

\* What the remote service does with the one request of a scan.
Behaviours ==
    {Raise, NoneContent}
        \cup {Text(<<"{", "M", "}">>, b) : b \in Bodies}
        \cup {Text(t, Body80) : t \in SampleTexts}
        \cup {Text(t, Body80) : t \in {<<"n">>, <<"x">>, <<"{", "}">>, <<"}", "x", "{">>}}

ParseBehaviours == {Text(t, Body80) : t \in TextsUpTo(MaxLen) \cup SampleTexts}

PairBehaviours ==
    {Raise}
        \cup {Text(<<"{", "M", "}">>, b) : b \in HintBodies}
        \cup {Text(<<"x", "{", "M", "}">>, b) : b \in {h \in HintBodies : h["notes"].s = "n1"}}

PlainUrl ==
    [ length |-> LONG_URL, starts_https |-> TRUE, host_dotted_quad |-> FALSE,
      host_hyphens |-> 0, suffix |-> "com" ]

PairUrls ==
    {u \in Urls : u.length = LONG_URL /\ u.host_hyphens = 0 /\ u.starts_https
                    /\ ~u.host_dotted_quad}

\* The state before any request is taken up: `active` are the scans that run.
InitWith(active, urls, behaviours) ==
    /\ groq_client \in BOOLEAN
    /\ \E r \in [active -> urls] :
          req = [s \in Scans |-> IF s \in active THEN r[s] ELSE PlainUrl]
    /\ \E b \in [active -> behaviours] :
          groq = [s \in Scans |-> IF s \in active THEN b[s] ELSE Raise]
    /\ pc = [s \in Scans |-> IF s \in active THEN "scan" ELSE "idle"]
    /\ features = [s \in Scans |-> NoFeatures]
    /\ ml = [s \in Scans |-> [score |-> 0, reasons |-> <<>>]]
    /\ content = [s \in Scans |-> NoContent]
    /\ genai = [s \in Scans |-> Null]
    /\ calls = [s \in Scans |-> 0]
    /\ response = [s \in Scans |-> NoResponse]

\* One scan, every URL shape, the classifier behaviours by family.
Init == InitWith({1}, Urls, Behaviours)

Spec == Init /\ [][Next]_vars

\* One scan of one URL, every response text up to MaxLen pieces.
InitParse == InitWith({1}, {PlainUrl}, ParseBehaviours)

SpecParse == InitParse /\ [][Next]_vars

\* Two scans side by side.
InitPair == InitWith(Scans, PairUrls, PairBehaviours)

SpecPair == InitPair /\ [][Next]_vars

(********************************* Claims **********************************)

\* genai_analysis has returned to scan().
Returned(s) == pc[s] \in {"fuse", "done", "raised"}

\* The fixed neutral fallback with the given notes.
IsFallback(g, notes) ==
    /\ g.t = "obj"
    /\ DOMAIN g.o = Keys
    /\ g.o["genai_score"] = Num(50)
    /\ g.o["verdict"] = Str("SUSPICIOUS")
    /\ g.o["top_reasons"].t = "list"
    /\ Len(g.o["top_reasons"].l) = 1
    /\ g.o["top_reasons"].l[1].t = "str"
    /\ g.o["notes"] = Str(notes)

Opens(t) == {i \in 1..Len(t) : t[i] = "{"}

Closes(t) == {i \in 1..Len(t) : t[i] = "}"}

FirstOpen(t) == CHOOSE i \in Opens(t) : \A j \in Opens(t) : i <= j

LastClose(t) == CHOOSE i \in Closes(t) : \A j \in Closes(t) : i >= j

\* The text holds a substring from its first "{" to its last "}".
HasSpan(t) == Opens(t) # {} /\ Closes(t) # {} /\ FirstOpen(t) < LastClose(t)

Span(t) == SubSeq(t, FirstOpen(t), LastClose(t))

DirectParses(b) == b.kind = "text" /\ json_loads(b.toks, b.body).ok

SpanParses(b) == b.kind = "text" /\ HasSpan(b.toks) /\ json_loads(Span(b.toks), b.body).ok

\* Both parse attempts fail on the content the call returned.
BothParsesFail(b) == b.kind \in {"text", "none"} /\ ~DirectParses(b) /\ ~SpanParses(b)

\* C1 (as claimed): whatever the classifier does, scan() returns a
\* ScanResult and never ends in an error.
C1_ScanNeverEndsInError == \A s \in Scans : pc[s] # "raised"

\* C2 (as claimed): what genai_analysis returns is always a ClassifierResult
\* in which genai_score, the verdict hint, top_reasons and notes are present.
C2_AllFieldsPresent ==
    \A s \in Scans :
        Returned(s) => genai[s].t = "obj" /\ Keys \subseteq DOMAIN genai[s].o

\* C3: with no client configured genai_analysis returns score 50, hint
\* SUSPICIOUS, exactly one reason and notes "Fallback used (GenAI
\* unavailable)"; when the call raises or both parse attempts fail it returns
\* the same with notes "Fallback used (GenAI error)".
C3_FallbackInEveryFailureMode ==
    \A s \in Scans :
        Returned(s) =>
            /\ ~groq_client => IsFallback(genai[s], "Fallback used (GenAI unavailable)")
            /\ (groq_client /\ (groq[s].kind = "raise" \/ BothParsesFail(groq[s])))
                   => IsFallback(genai[s], "Fallback used (GenAI error)")

C3_Witness ==
    \E s \in Scans :
        /\ pc[s] = "done"
        /\ groq_client
        /\ groq[s].kind = "text"
        /\ HasSpan(groq[s].toks)
        /\ BothParsesFail(groq[s])
        /\ IsFallback(genai[s], "Fallback used (GenAI error)")

\* final_score of a response, recomputed from its two scores (hundredths).
FusedX100(r) == 45 * r.ml_score + (55 * r.genai_score.x100) \div 100

\* C4 (as claimed): the verdict is PHISHING iff final_score >= 75,
\* SUSPICIOUS iff 45 <= final_score < 75 and SAFE iff final_score < 45,
\* with final_score = 0.45 * ml_score + 0.55 * genai_score, for every
\* genai_score (a comparison with a NaN final_score is false).
C4_VerdictIffThresholds ==
    \A s \in Scans :
        pc[s] = "done" =>
            LET r == response[s]
                num == ~r.genai_score.nan
            IN  /\ r.verdict \in {"PHISHING", "SUSPICIOUS", "SAFE"}
                /\ r.verdict = "PHISHING" <=> (num /\ FusedX100(r) >= 7500)
                /\ r.verdict = "SUSPICIOUS"
                       <=> (num /\ FusedX100(r) >= 4500 /\ FusedX100(r) < 7500)
                /\ r.verdict = "SAFE" <=> (num /\ FusedX100(r) < 4500)

\* The thresholds of C4 on the scans whose genai_score is a number: there
\* the three verdicts follow final_score exactly as claimed.
FusionOnNumericScores ==
    \A s \in Scans :
        (pc[s] = "done" /\ ~response[s].genai_score.nan) =>
            LET r == response[s]
            IN  /\ r.verdict = "PHISHING" <=> FusedX100(r) >= 7500
                /\ r.verdict = "SUSPICIOUS" <=> (FusedX100(r) >= 4500 /\ FusedX100(r) < 7500)
                /\ r.verdict = "SAFE" <=> FusedX100(r) < 4500
                /\ r.risk_score.x100 = FusedX100(r)

\* The rule table of the heuristic scorer, as the claim states it.
RuleTable(f) ==
    << [on |-> f.looks_like_ip, delta |-> 20, reason |-> "IP address used instead of domain"],
       [on |-> f.suspicious_tld, delta |-> 15, reason |-> "Suspicious TLD detected"],
       [on |-> f.url_length > 70, delta |-> 10, reason |-> "Unusually long URL"],
       [on |-> f.num_hyphens >= 3, delta |-> 10, reason |-> "Too many hyphens in domain"],
       [on |-> ~f.has_https, delta |-> 10, reason |-> "HTTPS not used"] >>

IsOn(rule) == rule.on

Triggered(f) == SelectSeq(RuleTable(f), IsOn)

RECURSIVE SumDeltas(_)
SumDeltas(rules) == IF rules = <<>> THEN 0 ELSE Head(rules).delta + SumDeltas(Tail(rules))

\* C5: ml_score_calc returns min(sum of the triggered deltas, 100) and one
\* reason per triggered rule in rule order; the score is in [0,100], at most
\* 65, and 0 with no reasons when no rule triggers.
C5_ScorerMatchesRuleTable ==
    \A s \in Scans :
        pc[s] \notin {"idle", "scan"} =>
            LET on == Triggered(features[s])
            IN  /\ ml[s].score = Min2(SumDeltas(on), 100)
                /\ ml[s].reasons = [i \in 1..Len(on) |-> Str(on[i].reason)]
                /\ ml[s].score >= 0 /\ ml[s].score <= 100 /\ ml[s].score <= 65
                /\ on = <<>> => ml[s].score = 0 /\ ml[s].reasons = <<>>

C5_Witness ==
    \E s \in Scans :
        /\ pc[s] = "done"
        /\ Len(Triggered(features[s])) = 5
        /\ ml[s].score = 65
        /\ Len(ml[s].reasons) = 5

\* The classifier's top_reasons as scan() reads them.
TopOf(g) == DictGet(g, "top_reasons", List(<<>>)).l

\* C6: ScanResult.reasons is the first 6 entries of the heuristic reasons
\* followed by the classifier's top_reasons: never longer than 6, heuristic
\* reasons first, repeats kept.
C6_ReasonsAreFirstSix ==
    \A s \in Scans :
        pc[s] = "done" =>
            LET h == ml[s].reasons
                t == TopOf(genai[s])
                out == response[s].reasons
            IN  /\ Len(out) = Min2(Len(h) + Len(t), 6)
                /\ \A i \in 1..Len(out) :
                      out[i] = IF i <= Len(h) THEN h[i] ELSE t[i - Len(h)]

C6_Witness ==
    \E s \in Scans :
        /\ pc[s] = "done"
        /\ Len(ml[s].reasons) = 2
        /\ Len(TopOf(genai[s])) >= 7
        /\ Len(response[s].reasons) = 6
        /\ response[s].reasons[2] = Str("HTTPS not used")
        /\ response[s].reasons[4] = Str("HTTPS not used")

\* C7: two scans with the same URL features and the same classifier
\* genai_score get the same verdict and risk_score whatever the classifier's
\* verdict hints and notes are, and genai_summary is the classifier result.
C7_HintDoesNotInfluenceVerdict ==
    /\ \A s, t \in Scans :
          (/\ pc[s] = "done" /\ pc[t] = "done"
           /\ features[s] = features[t]
           /\ DictGet(genai[s], "genai_score", Null) = DictGet(genai[t], "genai_score", Null))
          => /\ response[s].verdict = response[t].verdict
             /\ response[s].risk_score = response[t].risk_score
    /\ \A s \in Scans :
          pc[s] = "done" =>
             /\ response[s].genai_summary = genai[s]
             /\ (groq_client /\ groq[s].kind = "text")
                    => response[s].genai_summary = Obj(groq[s].body)

C7_Witness ==
    \E s, t \in Scans :
        /\ pc[s] = "done" /\ pc[t] = "done"
        /\ groq_client
        /\ features[s] = features[t]
        /\ genai[s].o["genai_score"] = Num(80) /\ genai[t].o["genai_score"] = Num(80)
        /\ genai[s].o["verdict"] = Str("SAFE") /\ genai[t].o["verdict"] = Str("PHISHING")
        /\ genai[s].o["notes"] # genai[t].o["notes"]
        /\ response[s].verdict = response[t].verdict

\* C8: a scan issues the classifier call at most once, never without a
\* configured client, and a failed call goes straight to the fallback result
\* with no further call.
C8_NoRetries ==
    /\ [](\A s \in Scans : calls[s] <= 1 /\ (~groq_client => calls[s] = 0))
    /\ [][\A s \in Scans :
            pc[s] = "except" =>
                /\ calls'[s] = calls[s]
                /\ pc'[s] \in {"except", "fuse"}
                /\ pc'[s] = "fuse" => IsFallback(genai'[s], "Fallback used (GenAI error)")]_vars

C8_Witness ==
    \E s \in Scans :
        /\ pc[s] = "done"
        /\ groq[s].kind = "raise"
        /\ calls[s] = 1
        /\ IsFallback(genai[s], "Fallback used (GenAI error)")

\* C9 (as claimed): for every number the classifier returns as genai_score,
\* below 0 and above 100 included, the ScanResult's genai_score and
\* risk_score lie within [0,100].
C9_ScoresWithinRange ==
    \A s \in Scans :
        (pc[s] = "done" /\ DictGet(genai[s], "genai_score", Num(50)).t = "num") =>
            /\ response[s].genai_score.x100 >= 0 /\ response[s].genai_score.x100 <= 10000
            /\ response[s].risk_score.x100 >= 0 /\ response[s].risk_score.x100 <= 10000

\* C10: the content is parsed whole first and that value returned; only when
\* that fails is the substring from the first "{" to the last "}" parsed and
\* its value returned; the fallback is returned only when there is no such
\* substring or it does not parse.
C10_ParseThenRecover ==
    \A s \in Scans :
        /\ pc[s] = "recover" => ~DirectParses(groq[s])
        /\ (Returned(s) /\ groq_client /\ groq[s].kind = "text") =>
              IF DirectParses(groq[s])
              THEN genai[s] = json_loads(groq[s].toks, groq[s].body).val
              ELSE IF SpanParses(groq[s])
                   THEN genai[s] = json_loads(Span(groq[s].toks), groq[s].body).val
                   ELSE IsFallback(genai[s], "Fallback used (GenAI error)")

C10_Witness ==
    \E s \in Scans :
        /\ pc[s] = "done"
        /\ groq[s].toks = <<"x", "{", "M", "}", "x">>
        /\ ~DirectParses(groq[s])
        /\ genai[s] = Obj(Body80)
        /\ response[s].genai_score = FloatOf(80)

====
